---- MODULE Spec2Model ----
(***************************************************************************)
(* Model of the particle background of the portfolio site                  *)
(* (src/src/components/ParticleBackgroundOptimized.jsx): the mount effect, *)
(* the per-frame callback animate, the spatial grid, the throttled         *)
(* mousemove handler, mouseleave, resize and the effect cleanup; and of    *)
(* the scroll listeners of the site: useScrollOptimized with its throttle, *)
(* App.handleScroll, the progress bar and the scroll particles of          *)
(* MagicalScrollEffects; and of the contact form (ContactForm in           *)
(* src/src/App.jsx).                                                       *)
(*                                                                         *)
(* Units.  JavaScript numbers are doubles; the model is fixed point:       *)
(*   lengths and per-tick velocities  1/100 px    (Px(n) is n px)          *)
(*   opacity                          1/400       (0.005 is 2)             *)
(*   time                             1 ms                                 *)
(* canvas.width and canvas.height are kept in whole px, as the canvas      *)
(* element keeps them.  A comparison of a square root with a constant is   *)
(* made on the squares (Math.sqrt(s) < r iff s < r*r), so it is exact;     *)
(* a square root that is used as a value is rounded up, a quotient is      *)
(* rounded toward zero.                                                    *)
(***************************************************************************)
EXTENDS Integers, Sequences, FiniteSets, TLC

VARIABLES
    canvas,            \* [width, height] of the canvas element, px
    viewport,          \* [width, height]: window.innerWidth / innerHeight, px
    device,            \* [dpr2, cores]: devicePixelRatio in halves, navigator.hardwareConcurrency (0: undefined)
    reducedMotion,     \* mediaQuery.matches of (prefers-reduced-motion: reduce)
    now,               \* Date.now(), ms
    mounted,           \* the effect has run and its cleanup has not: listeners are registered
    gen,               \* number of runs of the effect so far (0: never mounted)
    store,             \* store[g]: the particles array created by run g of the effect
    particleCount,     \* particleCount of the current run of the effect
    animationIdRef,    \* animationIdRef.current (0 stands for null: both are falsy)
    gridRef,           \* gridRef.current.cells: cell key -> sequence of particle references
    lastMouseUpdateRef,\* lastMouseUpdateRef.current
    mouseRef,          \* mouseRef.current: [x, y, active]
    animationId,       \* animationId[g]: the effect-local handle of the last requested frame (0: undefined)
    rafPending,        \* requested and not cancelled frames: set of [id, g]
    rafNext,           \* the handle the next requestAnimationFrame returns
    tick,              \* what the last call of animate did (observation only)
    hist,              \* what the last run of the effect and the mouse handler did (observation only)
    lastOp,            \* "animate": the last step called animate; "mousemove": it was an
                       \* accepted mousemove; "mouseleave"; "dropped": a mousemove the
                       \* throttle dropped, where that is recorded; "other" (observation only)
    host,              \* [canvasRef, context]: canvasRef.current is an element, getContext('2d')
                       \* returns a context; outcome: how the last run of the effect ended
    page,              \* the document's scroll state and what App.handleScroll and
                       \* MagicalScrollEffects keep of it
    hook               \* the state of a mounted useScrollOptimized and of its throttle

vars == <<canvas, viewport, device, reducedMotion, now, mounted, gen, store,
          particleCount, animationIdRef, gridRef, lastMouseUpdateRef, mouseRef,
          animationId, rafPending, rafNext, tick, hist, lastOp, host, page, hook>>

\* the variables of the particle background
particleVars ==
    <<canvas, viewport, device, reducedMotion, now, mounted, gen, store,
      particleCount, animationIdRef, gridRef, lastMouseUpdateRef, mouseRef,
      animationId, rafPending, rafNext, tick, hist, lastOp>>

----------------------------------------------------------------------------
(* Arithmetic *)

Px(n) == n * 100

Abs(n) == IF n < 0 THEN -n ELSE n

Max(a, b) == IF a >= b THEN a ELSE b

Min(a, b) == IF a <= b THEN a ELSE b

\* a / b rounded toward zero (b > 0)
TruncDiv(a, b) == IF a >= 0 THEN a \div b ELSE -((-a) \div b)

\* Lengths past SatLen are squared as SatLen: a double does not overflow, a
\* 32-bit integer does; every radius a squared distance is compared with is
\* below SatLen, so no comparison changes.
SatLen == Px(320)

Sq(d) == IF Abs(d) >= SatLen THEN SatLen * SatLen ELSE d * d

RECURSIVE SqrtSearch(_, _, _)
\* the least r in lo..hi with r*r >= n
SqrtSearch(n, lo, hi) ==
    IF lo >= hi THEN lo
    ELSE LET mid == (lo + hi) \div 2
         IN  IF mid * mid >= n THEN SqrtSearch(n, lo, mid)
             ELSE SqrtSearch(n, mid + 1, hi)

\* Math.sqrt(n), rounded up to the fixed-point grid
Sqrt(n) == SqrtSearch(n, 0, 46340)

----------------------------------------------------------------------------
(* Bounds of the model *)

\* the clock value at page load, ms
StartTime == 1000
\* runs of the effect (mount, cleanup, mount again)
MaxMounts == 2
\* calls of animate
MaxFrames == 3
\* ms of clock followed
MaxTime == 64
\* particles followed in the grid specification
GridCount == 2
\* calls of animate in the opacity specification
OpacityFrames == 200
\* calls of animate in the rebuild-cadence specification
CadenceFrames == 7
\* ms of clock followed in the unmount specification
UnmountTime == 282
\* calls of emailjs.sendForm
MaxSends == 2

----------------------------------------------------------------------------
(* Program constants *)

cellSize == Px(150)
maxDist == Px(120)
interactionRadius == Px(100)
\* 1.5 px per tick
maxSpeed == Px(3) \div 2
\* dx * force * 0.005
forceDivisor == 200
mouseThrottle == 32
gridEvery == 3
\* 0.005, 0.6 and 0.15 in 1/400
opacityStep == 2
opacityHigh == 240
opacityLow == 60
\* opacity 1
opacityOne == 200 * opacityStep

\* particleCount: the counts and areas of lines 71 and 72
lowPowerMin == 30
lowPowerArea == 20000
normalMin == 80
normalMax == 100
normalArea == 8000

\* the size of a canvas element that was given no width and height attribute
DefaultCanvas == [width |-> 300, height |-> 150]

----------------------------------------------------------------------------
(* Particle *)

\* new Particle(): the six Math.random() draws that matter, as the inputs
Particle(x, y, sx, sy, o, d) ==
    [x |-> x, y |-> y, speedX |-> sx, speedY |-> sy,
     opacity |-> o, opacityDirection |-> d]

\* the values the constructor can produce on a canvas of cv.width x cv.height:
\* Math.random() is in [0, 1)
IsNewParticle(p, cv) ==
    /\ 0 <= p.x /\ (p.x < Px(cv.width) \/ (cv.width = 0 /\ p.x = 0))
    /\ 0 <= p.y /\ (p.y < Px(cv.height) \/ (cv.height = 0 /\ p.y = 0))
    /\ -15 <= p.speedX /\ p.speedX < 15
    /\ -15 <= p.speedY /\ p.speedY < 15
    /\ 80 <= p.opacity /\ p.opacity < 240
    /\ p.opacityDirection \in {-1, 1}

\* the wrap with its second if left out
WrapHighOnly(c, bound) == IF c > bound THEN 0 ELSE c

\* one axis of the wrap: the two ifs in the order of the code
Wrap(c, bound) ==
    LET c1 == IF c > bound THEN 0 ELSE c
    IN  IF c1 < 0 THEN bound ELSE c1

\* update() with the two direction flips left out
updateNoFlip(p, cv) ==
    [p EXCEPT !.x = Wrap(p.x + p.speedX, Px(cv.width)),
              !.y = Wrap(p.y + p.speedY, Px(cv.height)),
              !.opacity = p.opacity + p.opacityDirection * opacityStep]

\* update() that bounces off the edges: a wrap also reverses the velocity
updateBounce(p, cv) ==
    LET nx == p.x + p.speedX
        ny == p.y + p.speedY
        o  == p.opacity + p.opacityDirection * opacityStep
        d1 == IF o > opacityHigh THEN -1 ELSE p.opacityDirection
        d2 == IF o < opacityLow THEN 1 ELSE d1
    IN  [p EXCEPT !.x = Wrap(nx, Px(cv.width)),
                  !.y = Wrap(ny, Px(cv.height)),
                  !.speedX = IF nx > Px(cv.width) \/ nx < 0 THEN -p.speedX ELSE p.speedX,
                  !.speedY = IF ny > Px(cv.height) \/ ny < 0 THEN -p.speedY ELSE p.speedY,
                  !.opacity = o,
                  !.opacityDirection = d2]

\* update() with an opacity that stops at the thresholds: the direction is
\* never reversed
updateSaturate(p, cv) ==
    LET o == p.opacity + p.opacityDirection * opacityStep
    IN  [p EXCEPT !.x = Wrap(p.x + p.speedX, Px(cv.width)),
                  !.y = Wrap(p.y + p.speedY, Px(cv.height)),
                  !.opacity = Max(opacityLow, Min(opacityHigh, o))]

\* Particle.update()
update(p, cv) ==
    LET o  == p.opacity + p.opacityDirection * opacityStep
        d1 == IF o > opacityHigh THEN -1 ELSE p.opacityDirection
        d2 == IF o < opacityLow THEN 1 ELSE d1
    IN  [p EXCEPT !.x = Wrap(p.x + p.speedX, Px(cv.width)),
                  !.y = Wrap(p.y + p.speedY, Px(cv.height)),
                  !.opacity = o,
                  !.opacityDirection = d2]

----------------------------------------------------------------------------
(* Spatial grid.  A cell key is the pair the key string is built from; a   *)
(* cell holds references [g, i]: particle i of the array of effect run g.  *)

Ref(g, i) == [g |-> g, i |-> i]

Deref(st, r) == st[r.g][r.i]

Indices(n) == [i \in 1..n |-> i]

CellOf(p, size) == <<p.x \div size, p.y \div size>>

buildGrid(ps, g, size) ==
    LET keys == {CellOf(ps[i], size) : i \in 1..Len(ps)}
        Bucket(k) == SelectSeq(Indices(Len(ps)), LAMBDA i : CellOf(ps[i], size) = k)
    IN  [k \in keys |-> [n \in 1..Len(Bucket(k)) |-> Ref(g, Bucket(k)[n])]]

\* the loop bound dx < 1: the cells to the right are left out
getNearbyCellsShort(cellX, cellY) ==
    [n \in 1..6 |-> <<cellX + ((n - 1) \div 3) - 1, cellY + ((n - 1) % 3) - 1>>]

\* the loops from -2 to 2: 25 cells
getNearbyCellsWide(cellX, cellY) ==
    [n \in 1..25 |-> <<cellX + ((n - 1) \div 5) - 2, cellY + ((n - 1) % 5) - 2>>]

getNearbyCells(cellX, cellY) ==
    [n \in 1..9 |-> <<cellX + ((n - 1) \div 3) - 1, cellY + ((n - 1) % 3) - 1>>]

RECURSIVE Gather(_, _, _)
\* nearbyParticles: the cells of keys n..9 that exist, concatenated
Gather(keys, cells, n) ==
    IF n > Len(keys) THEN <<>>
    ELSE (IF keys[n] \in DOMAIN cells THEN cells[keys[n]] ELSE <<>>)
         \o Gather(keys, cells, n + 1)

nearbyParticles(p, cells, size) ==
    LET c == CellOf(p, size)
    IN  Gather(getNearbyCells(c[1], c[2]), cells, 1)

distSq(p, q) == Sq(p.x - q.x) + Sq(p.y - q.y)

\* the distance test with <= in place of <
linesOfInclusive(st, g, i, cells, size) ==
    LET me == Ref(g, i)
        near == nearbyParticles(st[g][i], cells, size)
        hit == SelectSeq(near, LAMBDA o :
                   o # me /\ distSq(st[g][i], Deref(st, o)) <= maxDist * maxDist)
    IN  [n \in 1..Len(hit) |-> <<me, hit[n]>>]

\* the lines particle i of run g draws: one per entry of its neighbourhood
\* that is another object and closer than maxDist
linesOf(st, g, i, cells, size) ==
    LET me == Ref(g, i)
        near == nearbyParticles(st[g][i], cells, size)
        hit == SelectSeq(near, LAMBDA o :
                   o # me /\ distSq(st[g][i], Deref(st, o)) < maxDist * maxDist)
    IN  [n \in 1..Len(hit) |-> <<me, hit[n]>>]

RECURSIVE connectionPass(_, _, _, _, _)
\* particles.forEach of the connection pass, from particle i on
connectionPass(st, g, i, cells, size) ==
    IF i > Len(st[g]) THEN <<>>
    ELSE linesOf(st, g, i, cells, size) \o connectionPass(st, g, i + 1, cells, size)

connectionLinesAlways(st, g, cells, size, motion) ==
    connectionPass(st, g, 1, cells, size)

\* if (!mediaQuery.matches) { the connection pass }
connectionLines(st, g, cells, size, motion) ==
    IF motion THEN <<>> ELSE connectionPass(st, g, 1, cells, size)

\* the documented original algorithm: every pair i < j once, distance < 120
naivePairs(ps) ==
    {pr \in (1..Len(ps)) \X (1..Len(ps)) :
        pr[1] < pr[2] /\ distSq(ps[pr[1]], ps[pr[2]]) < maxDist * maxDist}

----------------------------------------------------------------------------
(* Mount: particle count and canvas size *)

isLowPowerDevice(dev) == dev.dpr2 < 2 \/ dev.cores = 0

particleCountOf(cv, low) ==
    IF low THEN Max(lowPowerMin, (cv.width * cv.height) \div lowPowerArea)
    ELSE Max(normalMin, Min(normalMax, (cv.width * cv.height) \div normalArea))

\* resizeCanvas: canvas.width = innerWidth * dpr, an integer attribute
resizeCanvas(vp, dev) ==
    [width |-> (vp.width * dev.dpr2) \div 2, height |-> (vp.height * dev.dpr2) \div 2]

----------------------------------------------------------------------------
(* Mouse force *)

\* distance < interactionRadius
inRadius(p, mx, my) ==
    Sq(mx - p.x) + Sq(my - p.y) < interactionRadius * interactionRadius

\* Math.sqrt(dx * dx + dy * dy)
distance(p, mx, my) == Sqrt(Sq(mx - p.x) + Sq(my - p.y))

\* the push with its sign reversed: away from the pointer
pushedAway(p, mx, my) ==
    LET dx == mx - p.x
        dy == my - p.y
        num == interactionRadius - distance(p, mx, my)
        den == interactionRadius * forceDivisor
    IN  [p EXCEPT !.speedX = p.speedX - TruncDiv(dx * num, den),
                  !.speedY = p.speedY - TruncDiv(dy * num, den)]

\* speedX += dx * force * 0.005, and speedY
pushed(p, mx, my) ==
    LET dx == mx - p.x
        dy == my - p.y
        num == interactionRadius - distance(p, mx, my)
        den == interactionRadius * forceDivisor
    IN  [p EXCEPT !.speedX = p.speedX + TruncDiv(dx * num, den),
                  !.speedY = p.speedY + TruncDiv(dy * num, den)]

speedSq(p) == p.speedX * p.speedX + p.speedY * p.speedY

\* speed > maxSpeed
overSpeed(p) == speedSq(p) > maxSpeed * maxSpeed

\* speedX = (speedX / speed) * maxSpeed, and speedY
limitSpeed(p) ==
    LET speed == Sqrt(speedSq(p))
    IN  [p EXCEPT !.speedX = TruncDiv(p.speedX * maxSpeed, speed),
                  !.speedY = TruncDiv(p.speedY * maxSpeed, speed)]

\* the forEach body without the speed limit
applyForceUnlimited(p, mx, my) ==
    IF inRadius(p, mx, my) THEN pushed(p, mx, my) ELSE p

\* the body of the forEach of handleMouseMove for one particle
applyForce(p, mx, my) ==
    IF inRadius(p, mx, my)
    THEN LET q == pushed(p, mx, my)
         IN  IF overSpeed(q) THEN limitSpeed(q) ELSE q
    ELSE p

----------------------------------------------------------------------------
(* Scroll progress.  A JavaScript number is finite, NaN or Infinity; a     *)
(* finite percentage is kept in whole percent.  Scroll positions and       *)
(* heights are whole px and never negative.                                *)

Finite(n) == [kind |-> "finite", value |-> n]
NaN == [kind |-> "NaN", value |-> 0]
Infinity == [kind |-> "Infinity", value |-> 0]

\* (a / b) * 100 for a >= 0, b >= 0
jsPercent(a, b) ==
    IF b = 0 THEN (IF a = 0 THEN NaN ELSE Infinity)
    ELSE Finite((a * 100) \div b)

\* useScrollOptimized: docHeight > 0 ? (scrollTop / docHeight) * 100 : 0
scrollPercent(scrollTop, docHeight) ==
    IF docHeight > 0 THEN jsPercent(scrollTop, docHeight) ELSE Finite(0)

\* MagicalScrollEffects: the width of the progress bar, as rendered
progressWidth(pg) == jsPercent(pg.scrollY, pg.docHeight)

----------------------------------------------------------------------------
(* ContactForm.  A field value is a string; a status is its type and its   *)
(* message.                                                                *)

NoStatus == [type |-> "", message |-> ""]

EmptyForm == [name |-> "", email |-> "", subject |-> "", message |-> ""]

\* isLoading, status, formData; pending: emailjs.sendForm has been called and
\* its promise is not settled; calls: the calls of sendForm so far; event:
\* what the last handler did (observation only)
InitialForm ==
    [isLoading |-> FALSE, status |-> NoStatus, formData |-> EmptyForm,
     pending |-> FALSE, calls |-> 0, event |-> "none"]

\* !value.trim(): the strings of the model that are empty or blank
blank(value) == value \in {"", " "}

\* /^[^\s@]+@[^\s@]+\.[^\s@]+$/ on the strings of the model
emailRegex(value) == value \in {"ann@x.org"}

\* validateForm: the status it sets, NoStatus when it returns true
validateForm(d) ==
    IF blank(d.name) THEN [type |-> "error", message |-> "Please enter your name"]
    ELSE IF blank(d.email) THEN [type |-> "error", message |-> "Please enter your email"]
    ELSE IF ~emailRegex(d.email)
         THEN [type |-> "error", message |-> "Please enter a valid email address"]
    ELSE IF blank(d.subject) THEN [type |-> "error", message |-> "Please enter a subject"]
    ELSE IF blank(d.message) THEN [type |-> "error", message |-> "Please enter your message"]
    ELSE NoStatus

\* handleInputChange
handleInputChange(f, field, value) ==
    [f EXCEPT !.formData = [@ EXCEPT ![field] = value],
              !.status = IF @.message # "" THEN NoStatus ELSE @,
              !.event = "input"]

\* handleSubmit up to the await
handleSubmit(f) ==
    IF validateForm(f.formData) # NoStatus
    THEN [f EXCEPT !.status = validateForm(f.formData), !.event = "invalid"]
    ELSE [f EXCEPT !.isLoading = TRUE, !.status = NoStatus, !.pending = TRUE,
                   !.calls = @ + 1, !.event = "sending"]

\* handleSubmit after the await when the promise is fulfilled, with finally
sendResolved(f) ==
    [f EXCEPT !.status = [type |-> "success", message |-> "Thank you! Your message has been sent successfully."],
              !.formData = EmptyForm,
              !.isLoading = FALSE, !.pending = FALSE, !.event = "resolved"]

\* the catch block without the finally block
sendRejectedNoFinally(f) ==
    [f EXCEPT !.status = [type |-> "error", message |-> "Sorry, there was an error sending your message."],
              !.pending = FALSE, !.event = "rejected"]

\* handleSubmit after the await when the promise is rejected: catch, finally
sendRejected(f) ==
    [f EXCEPT !.status = [type |-> "error", message |-> "Sorry, there was an error sending your message."],
              !.isLoading = FALSE, !.pending = FALSE, !.event = "rejected"]

----------------------------------------------------------------------------
(* Scroll listeners, continued *)

\* throttle(handleScroll, 16) and the 10 px of the direction test
scrollThrottle == 16
directionThreshold == 10
\* debounce(..., 250) of the section detection
debounceDelay == 250
\* MagicalScrollEffects: setInterval(animateParticles, 16), the 5 px of the
\* speed test, slice(-20), and life 1 in steps of 0.02
sparkInterval == 16
sparkThreshold == 5
sparkKeep == 20
sparkLife == 50

\* page: docHeight (scrollHeight - innerHeight), scrollTop (window.scrollY),
\* scrollProgress (App's state), scrollY (the state of MagicalScrollEffects);
\* seen: the docHeight App.handleScroll last computed with (-1: never ran);
\* eventAt: the time of the last scroll event (0: none yet); particles: the
\* particles state of MagicalScrollEffects, oldest first, as [id, life] with
\* life in steps of 0.02; nextId: the id of the next particle; intervalLeft:
\* ms until its interval next fires; sinceScroll: ms since the last scroll
\* event it handled, as far as counted (the last four are followed only where
\* its particles are); form: the state of ContactForm
InitialPage(dh) ==
    [docHeight |-> dh, scrollTop |-> 0, scrollProgress |-> Finite(0), seen |-> -1,
     scrollY |-> 0, eventAt |-> 0,
     particles |-> <<>>, nextId |-> 0, intervalLeft |-> sparkInterval,
     sinceScroll |-> sparkInterval,
     form |-> InitialForm]

\* hook: the state and refs of useScrollOptimized, lastTime and timeoutId of
\* the throttle its effect created (timeoutId 0: no timeout pending, else
\* the time it is due); debounceId: the same for the timeout of the debounced
\* section detection; mounted: the effect's listeners are registered; seen as
\* in page; runs, lastRun, prevRun: how often (up to 2) and when handleScroll
\* ran; late: the callbacks that ran after the cleanup (observation only)
InitialHook ==
    [scrollProgress |-> Finite(0), seen |-> -1, direction |-> "down", lastScrollY |-> 0,
     lastTime |-> 0, timeoutId |-> 0, debounceId |-> 0, mounted |-> TRUE,
     runs |-> 0, lastRun |-> 0, prevRun |-> 0, late |-> {}]

\* App.handleScroll
appHandleScroll(pg) ==
    [pg EXCEPT !.scrollProgress = jsPercent(pg.scrollTop, pg.docHeight),
               !.seen = pg.docHeight]

\* handleScroll of MagicalScrollEffects: setScrollY(window.scrollY)
magicalHandleScroll(pg) == [pg EXCEPT !.scrollY = pg.scrollTop]

\* prev.slice(-20)
sliceLast(seq, n) == SubSeq(seq, Max(1, Len(seq) - n + 1), Len(seq))

\* handleScroll of MagicalScrollEffects with its particles, for a scroll to
\* y, and the effect that follows: scrollY is the effect's dependency, so a
\* changed scrollY runs the cleanup (clearInterval) and the effect again
\* (setInterval: the first call 16 ms from now)
magicalScroll(pg, y) ==
    LET fast == Abs(y - pg.scrollY) > sparkThreshold
        newParticle == [id |-> pg.nextId, life |-> sparkLife]
    IN  [pg EXCEPT !.scrollTop = y,
                   !.scrollY = y,
                   !.particles = IF fast THEN Append(sliceLast(@, sparkKeep), newParticle) ELSE @,
                   !.nextId = IF fast THEN (@ + 1) % (sparkKeep + 2) ELSE @,
                   !.intervalLeft = IF y # pg.scrollY THEN sparkInterval ELSE @,
                   !.sinceScroll = 0]

\* animateParticles: life - 0.02, then filter(life > 0)
animateParticles(seq) ==
    SelectSeq([n \in 1..Len(seq) |-> [seq[n] EXCEPT !.life = @ - 1]], LAMBDA q : q.life > 0)

\* handleScroll of useScrollOptimized at time t.  When it changes direction
\* the component renders again, handleScroll is a new function and the
\* listener effect runs again: throttle(handleScroll, 16) is a new throttle,
\* with lastTime = 0 and no timeout.
handleScroll(h, pg, t) ==
    LET newDirection == IF pg.scrollTop > h.lastScrollY THEN "down" ELSE "up"
        turn == /\ newDirection # h.direction
                /\ Abs(pg.scrollTop - h.lastScrollY) > directionThreshold
    IN  [h EXCEPT !.scrollProgress = scrollPercent(pg.scrollTop, pg.docHeight),
                  !.seen = pg.docHeight,
                  !.direction = IF turn THEN newDirection ELSE @,
                  !.lastScrollY = pg.scrollTop,
                  !.lastTime = IF turn THEN 0 ELSE @,
                  !.timeoutId = IF turn THEN 0 ELSE @,
                  !.runs = Min(2, @ + 1),
                  !.prevRun = h.lastRun,
                  !.lastRun = t]

\* the function throttle returns, called at time t
throttledScroll(h, pg, t) ==
    LET timeSinceLastCall == t - h.lastTime
    IN  IF timeSinceLastCall >= scrollThrottle
        THEN handleScroll([h EXCEPT !.lastTime = t, !.timeoutId = 0], pg, t)
        ELSE [h EXCEPT !.timeoutId = t + (scrollThrottle - timeSinceLastCall)]

\* the function debounce returns, called at time t: the pending timeout is
\* cleared and a new one set
debounced(h, t) == [h EXCEPT !.debounceId = t + debounceDelay]

\* handleScroll called by a timeout after the component has unmounted: React
\* ignores the state setters, the ref is still assigned
handleScrollUnmounted(h, pg, t) ==
    [h EXCEPT !.lastScrollY = pg.scrollTop,
              !.late = @ \cup {"handleScroll"}]

----------------------------------------------------------------------------
(* State *)

HealthyHost == [canvasRef |-> TRUE, context |-> TRUE, outcome |-> "none"]

\* tick: ran (animate was called), g (by which effect run), rebuilt (it built
\* the grid), reduced (mediaQuery.matches as it read it), before (the array as
\* it found it), drawn (the particles as draw() painted them, in order),
\* nearby (nearbyParticles of each particle; empty when the connection pass
\* was skipped), lines (the lines stroked, in order, as pairs of references)
NoTick ==
    [ran |-> FALSE, g |-> 0, rebuilt |-> FALSE, reduced |-> FALSE,
     before |-> <<>>, drawn |-> <<>>, nearby |-> <<>>, lines |-> <<>>]

NoHist ==
    [countDims |-> DefaultCanvas, placeDims |-> DefaultCanvas,
     samples |-> 0, prevSample |-> 0, clamped |-> {}]

\* The page before the component mounts.  Date.now() is far above
\* mouseThrottle; the model's clock starts at StartTime.
UnmountedOn(vp, dev, motion, h, dh) ==
    /\ host = h
    /\ page = InitialPage(dh)
    /\ hook = InitialHook
    /\ canvas = DefaultCanvas
    /\ viewport = vp
    /\ device = dev
    /\ reducedMotion = motion
    /\ now = StartTime
    /\ mounted = FALSE
    /\ gen = 0
    /\ store = <<>>
    /\ particleCount = 0
    /\ animationIdRef = 0
    /\ gridRef = <<>>
    /\ lastMouseUpdateRef = 0
    /\ mouseRef = [x |-> 0, y |-> 0, active |-> FALSE]
    /\ animationId = <<>>
    /\ rafPending = {}
    /\ rafNext = 1
    /\ tick = NoTick
    /\ hist = NoHist
    /\ lastOp = "other"

\* the same with a canvas and a context to be had, on a page without scroll range
Unmounted(vp, dev, motion) == UnmountedOn(vp, dev, motion, HealthyHost, 0)

\* A moment of a running simulation: the effect has run once on viewport vp,
\* frames calls of animate have been made, the grid was built in the last of
\* them and the particles are ps.
Running(vp, dev, ps, frames) ==
    /\ host = [HealthyHost EXCEPT !.outcome = "started"]
    /\ page = InitialPage(0)
    /\ hook = InitialHook
    /\ canvas = resizeCanvas(vp, dev)
    /\ viewport = vp
    /\ device = dev
    /\ reducedMotion = FALSE
    /\ now = StartTime
    /\ mounted = TRUE
    /\ gen = 1
    /\ store = <<ps>>
    /\ particleCount = particleCountOf(DefaultCanvas, isLowPowerDevice(dev))
    /\ animationIdRef = frames
    /\ gridRef = buildGrid(ps, 1, cellSize)
    /\ lastMouseUpdateRef = 0
    /\ mouseRef = [x |-> 0, y |-> 0, active |-> FALSE]
    /\ animationId = <<frames>>
    /\ rafPending = {[id |-> frames, g |-> 1]}
    /\ rafNext = frames + 1
    /\ tick = [NoTick EXCEPT !.ran = TRUE, !.g = 1, !.rebuilt = TRUE]
    /\ hist = [NoHist EXCEPT !.placeDims = resizeCanvas(vp, dev)]
    /\ lastOp = "other"

----------------------------------------------------------------------------
(* animate *)

\* animate updating every other particle only
animateStaggered(st, g, cv, frames, cells, motion) ==
    LET n       == Len(st[g])
        ps1     == [i \in 1..n |-> IF i % 2 = 1 THEN update(st[g][i], cv) ELSE st[g][i]]
        st1     == [st EXCEPT ![g] = ps1]
        rebuild == frames = 0 \/ frames % gridEvery = 0
        cells1  == IF rebuild THEN buildGrid(ps1, g, cellSize) ELSE cells
    IN  [store |-> st1,
         cells |-> cells1,
         tick  |-> [ran |-> TRUE, g |-> g, rebuilt |-> rebuild, reduced |-> motion,
                    before |-> st[g],
                    drawn |-> ps1,
                    nearby |-> IF motion THEN <<>>
                               ELSE [i \in 1..n |-> nearbyParticles(ps1[i], cells1, cellSize)],
                    lines |-> connectionLines(st1, g, cells1, cellSize, motion)]]

\* animate building the grid on the multiples of 3 only, not on a counter
\* that is still null
animateLateBuild(st, g, cv, frames, cells, motion) ==
    LET n       == Len(st[g])
        ps1     == [i \in 1..n |-> update(st[g][i], cv)]
        st1     == [st EXCEPT ![g] = ps1]
        rebuild == frames # 0 /\ frames % gridEvery = 0
        cells1  == IF rebuild THEN buildGrid(ps1, g, cellSize) ELSE cells
    IN  [store |-> st1,
         cells |-> cells1,
         tick  |-> [ran |-> TRUE, g |-> g, rebuilt |-> rebuild, reduced |-> motion,
                    before |-> st[g],
                    drawn |-> ps1,
                    nearby |-> IF motion THEN <<>>
                               ELSE [i \in 1..n |-> nearbyParticles(ps1[i], cells1, cellSize)],
                    lines |-> connectionLines(st1, g, cells1, cellSize, motion)]]

\* animate building the grid before it updates the particles
animateBuildFirst(st, g, cv, frames, cells, motion) ==
    LET n       == Len(st[g])
        ps1     == [i \in 1..n |-> update(st[g][i], cv)]
        st1     == [st EXCEPT ![g] = ps1]
        rebuild == frames = 0 \/ frames % gridEvery = 0
        cells1  == IF rebuild THEN buildGrid(st[g], g, cellSize) ELSE cells
    IN  [store |-> st1,
         cells |-> cells1,
         tick  |-> [ran |-> TRUE, g |-> g, rebuilt |-> rebuild, reduced |-> motion,
                    before |-> st[g],
                    drawn |-> ps1,
                    nearby |-> IF motion THEN <<>>
                               ELSE [i \in 1..n |-> nearbyParticles(ps1[i], cells1, cellSize)],
                    lines |-> connectionLines(st1, g, cells1, cellSize, motion)]]

\* One call of animate by effect run g: what it leaves in the particles, the
\* grid and (for observation) what it updated, drew and connected.
animate(st, g, cv, frames, cells, motion) ==
    LET n       == Len(st[g])
        ps1     == [i \in 1..n |-> update(st[g][i], cv)]
        st1     == [st EXCEPT ![g] = ps1]
        rebuild == frames = 0 \/ frames % gridEvery = 0
        cells1  == IF rebuild THEN buildGrid(ps1, g, cellSize) ELSE cells
    IN  [store |-> st1,
         cells |-> cells1,
         tick  |-> [ran |-> TRUE, g |-> g, rebuilt |-> rebuild, reduced |-> motion,
                    before |-> st[g],
                    drawn |-> ps1,
                    nearby |-> IF motion THEN <<>>
                               ELSE [i \in 1..n |-> nearbyParticles(ps1[i], cells1, cellSize)],
                    lines |-> connectionLines(st1, g, cells1, cellSize, motion)]]

\* A frame requested by effect run r.g fires: animate runs and requests the
\* next frame.
Animate(limit) ==
    /\ animationIdRef < limit
    /\ \E r \in rafPending :
         LET a == animate(store, r.g, canvas, animationIdRef, gridRef, reducedMotion)
         IN  /\ store' = a.store
             /\ gridRef' = a.cells
             /\ tick' = a.tick
             /\ animationIdRef' = animationIdRef + 1
             /\ animationId' = [animationId EXCEPT ![r.g] = rafNext]
             /\ rafPending' = (rafPending \ {r}) \cup {[id |-> rafNext, g |-> r.g]}
             /\ rafNext' = rafNext + 1
    /\ lastOp' = "animate"
    /\ UNCHANGED <<host, page, hook, canvas, viewport, device, reducedMotion, now, mounted, gen,
                   particleCount, lastMouseUpdateRef, mouseRef, hist>>

\* The same step in a simulation that is followed without end.  The code
\* reads the frame counter only in line 153, where every multiple of 3 acts
\* like 0, and never reads a handle that has fired: the counter is kept
\* modulo 3 and the fired handle's number is given to the new request.
AnimateForever ==
    /\ \E r \in rafPending :
         LET a == animate(store, r.g, canvas, animationIdRef, gridRef, reducedMotion)
         IN  /\ store' = a.store
             /\ gridRef' = a.cells
             /\ tick' = a.tick
             /\ animationIdRef' = (animationIdRef + 1) % gridEvery
             /\ animationId' = [animationId EXCEPT ![r.g] = r.id]
             /\ rafPending' = rafPending
             /\ rafNext' = rafNext
    /\ lastOp' = "animate"
    /\ UNCHANGED <<host, page, hook, canvas, viewport, device, reducedMotion, now, mounted, gen,
                   particleCount, lastMouseUpdateRef, mouseRef, hist>>

----------------------------------------------------------------------------
(* The effect and its cleanup *)

\* The state the effect leaves when it creates the particles ps (n of the
\* particleCount particles are followed): count, resize, particles, the first
\* animate() call, the listeners.
EffectRuns(ps) ==
    LET g     == gen + 1
        count == particleCountOf(canvas, isLowPowerDevice(device))
        cv    == resizeCanvas(viewport, device)
        a     == animate(Append(store, ps), g, cv, animationIdRef, gridRef, reducedMotion)
    IN  /\ particleCount' = count
        /\ canvas' = cv
        /\ gen' = g
        /\ store' = a.store
        /\ gridRef' = a.cells
        /\ tick' = a.tick
        /\ animationIdRef' = animationIdRef + 1
        /\ animationId' = Append(animationId, rafNext)
        /\ rafPending' = rafPending \cup {[id |-> rafNext, g |-> g]}
        /\ rafNext' = rafNext + 1
        /\ mounted' = TRUE
        /\ hist' = [hist EXCEPT !.countDims = canvas, !.placeDims = cv]
        /\ lastOp' = "animate"
        /\ host' = [host EXCEPT !.outcome = "started"]
        /\ UNCHANGED <<page, hook, viewport, device, reducedMotion, now, lastMouseUpdateRef, mouseRef>>

\* useEffect; Arrays: the particle arrays the constructor's random draws may
\* give (the ones it cannot give on this canvas are left out)
Mount(Arrays, limit) ==
    /\ ~mounted
    /\ gen < limit
    /\ host.canvasRef
    /\ host.context
    /\ \E ps \in Arrays :
         /\ \A i \in 1..Len(ps) : IsNewParticle(ps[i], resizeCanvas(viewport, device))
         /\ EffectRuns(ps)

\* useEffect when the canvas or its context is not to be had.  Without a
\* canvas the effect returns at once.  Without a context (getContext returns
\* null) the count is computed, resizeCanvas() assigns canvas.width and
\* canvas.height and then ctx.scale throws a TypeError out of the effect.
MountFails ==
    /\ ~mounted
    /\ \/ /\ ~host.canvasRef
          /\ host' = [host EXCEPT !.outcome = "returned"]
          /\ canvas' = canvas
       \/ /\ host.canvasRef
          /\ ~host.context
          /\ host' = [host EXCEPT !.outcome = "TypeError"]
          /\ canvas' = resizeCanvas(viewport, device)
    /\ lastOp' = "other"
    /\ UNCHANGED <<page, hook, viewport, device, reducedMotion, now, mounted, gen, store,
                   particleCount, animationIdRef, gridRef, lastMouseUpdateRef,
                   mouseRef, animationId, rafPending, rafNext, tick, hist>>

\* the cleanup without cancelAnimationFrame: only the listeners are removed
CleanupKeepsFrame ==
    /\ mounted
    /\ rafPending' = rafPending
    /\ mounted' = FALSE
    /\ lastOp' = "other"
    /\ UNCHANGED <<host, page, hook, canvas, viewport, device, reducedMotion, now, gen, store,
                   particleCount, animationIdRef, gridRef, lastMouseUpdateRef,
                   mouseRef, animationId, rafNext, tick, hist>>

\* the function the effect returns
Cleanup ==
    /\ mounted
    /\ rafPending' = {r \in rafPending : r.id # animationId[gen]}
    /\ mounted' = FALSE
    /\ lastOp' = "other"
    /\ UNCHANGED <<host, page, hook, canvas, viewport, device, reducedMotion, now, gen, store,
                   particleCount, animationIdRef, gridRef, lastMouseUpdateRef,
                   mouseRef, animationId, rafNext, tick, hist>>

----------------------------------------------------------------------------
(* Events *)

\* a resize that also computes the particle count again, for the new canvas
WindowResizeRecount(vp) ==
    /\ vp # viewport
    /\ viewport' = vp
    /\ canvas' = IF mounted THEN resizeCanvas(vp, device) ELSE canvas
    /\ particleCount' = IF mounted
                        THEN particleCountOf(resizeCanvas(vp, device), isLowPowerDevice(device))
                        ELSE particleCount
    /\ lastOp' = "other"
    /\ UNCHANGED <<host, page, hook, device, reducedMotion, now, mounted, gen, store,
                   animationIdRef, gridRef, lastMouseUpdateRef, mouseRef,
                   animationId, rafPending, rafNext, tick, hist>>

\* the window is resized to vp; resizeCanvas runs while it is registered
WindowResize(vp) ==
    /\ vp # viewport
    /\ viewport' = vp
    /\ canvas' = IF mounted THEN resizeCanvas(vp, device) ELSE canvas
    /\ lastOp' = "other"
    /\ UNCHANGED <<host, page, hook, device, reducedMotion, now, mounted, gen, store, particleCount,
                   animationIdRef, gridRef, lastMouseUpdateRef, mouseRef,
                   animationId, rafPending, rafNext, tick, hist>>

\* the particles of ps whose speed the handler limits
clampedBy(ps, mx, my) ==
    {i \in 1..Len(ps) : inRadius(ps[i], mx, my) /\ overSpeed(pushed(ps[i], mx, my))}

\* a throttle that drops no event
throttledOff(t, last) == FALSE

\* the scroll handlers' 16 ms in place of 32
throttledHalf(t, last) == t - last < mouseThrottle \div 2

\* if (now - lastMouseUpdateRef.current < 32) return
throttled(t, last) == t - last < mouseThrottle

\* handleMouseMove with the pointer at (mx, my) of the canvas; dropped: what
\* lastOp records of an event the throttle drops
MouseMoveNoting(mx, my, dropped) ==
    /\ mounted
    /\ IF throttled(now, lastMouseUpdateRef)
       THEN UNCHANGED <<lastMouseUpdateRef, mouseRef, store, hist>>
       ELSE /\ lastMouseUpdateRef' = now
            /\ mouseRef' = [x |-> mx, y |-> my, active |-> TRUE]
            /\ store' = [store EXCEPT ![gen] =
                           [i \in 1..Len(store[gen]) |-> applyForce(store[gen][i], mx, my)]]
            /\ hist' = [hist EXCEPT !.samples = Min(2, hist.samples + 1),
                                    !.prevSample = lastMouseUpdateRef,
                                    !.clamped = clampedBy(store[gen], mx, my)]
    /\ lastOp' = IF throttled(now, lastMouseUpdateRef) THEN dropped
                 ELSE "mousemove"
    /\ UNCHANGED <<host, page, hook, canvas, viewport, device, reducedMotion, now, mounted, gen,
                   particleCount, animationIdRef, gridRef, animationId, rafPending,
                   rafNext, tick>>

\* handleMouseMove, a dropped event left unrecorded
MouseMove(mx, my) == MouseMoveNoting(mx, my, "other")

\* handleMouseLeave without its assignment
MouseLeaveIgnored ==
    /\ mounted
    /\ mouseRef' = mouseRef
    /\ lastOp' = "mouseleave"
    /\ UNCHANGED <<host, page, hook, canvas, viewport, device, reducedMotion, now, mounted, gen, store,
                   particleCount, animationIdRef, gridRef, lastMouseUpdateRef,
                   animationId, rafPending, rafNext, tick, hist>>

\* handleMouseLeave
MouseLeave ==
    /\ mounted
    /\ mouseRef' = [mouseRef EXCEPT !.active = FALSE]
    /\ lastOp' = "mouseleave"
    /\ UNCHANGED <<host, page, hook, canvas, viewport, device, reducedMotion, now, mounted, gen, store,
                   particleCount, animationIdRef, gridRef, lastMouseUpdateRef,
                   animationId, rafPending, rafNext, tick, hist>>

\* the user switches the reduced-motion preference
MotionChange ==
    /\ reducedMotion' = ~reducedMotion
    /\ lastOp' = "other"
    /\ UNCHANGED <<host, page, hook, canvas, viewport, device, now, mounted, gen, store, particleCount,
                   animationIdRef, gridRef, lastMouseUpdateRef, mouseRef,
                   animationId, rafPending, rafNext, tick, hist>>

\* Date.now() moves by d ms (it is the wall clock: d may be negative)
ClockStep(d, limit) ==
    /\ now + d >= StartTime
    /\ now + d <= StartTime + limit
    /\ now' = now + d
    /\ lastOp' = "other"
    /\ UNCHANGED <<host, page, hook, canvas, viewport, device, reducedMotion, mounted, gen, store,
                   particleCount, animationIdRef, gridRef, lastMouseUpdateRef,
                   mouseRef, animationId, rafPending, rafNext, tick, hist>>

\* a scroll event on a page in state pg: the three scroll listeners run.
\* The browser sends at most one scroll event per frame, so two events are
\* never sent at the same time.
Dispatch(pg) ==
    /\ now > page.eventAt
    /\ page' = [magicalHandleScroll(appHandleScroll(pg)) EXCEPT !.eventAt = now]
    /\ hook' = IF hook.mounted THEN debounced(throttledScroll(hook, pg, now), now) ELSE hook

\* the user scrolls to y
ScrollEvent(y) ==
    /\ y # page.scrollTop
    /\ y <= page.docHeight
    /\ Dispatch([page EXCEPT !.scrollTop = y])
    /\ UNCHANGED <<host, particleVars>>

\* the content or the window changes height: docHeight becomes dh; a scroll
\* position past the new end is moved to it, with a scroll event
LayoutChange(dh) ==
    /\ dh # page.docHeight
    /\ LET pg == [page EXCEPT !.docHeight = dh, !.scrollTop = Min(page.scrollTop, dh)]
       IN  IF pg.scrollTop # page.scrollTop
           THEN Dispatch(pg)
           ELSE page' = pg /\ hook' = hook
    /\ UNCHANGED <<host, particleVars>>

\* the timeout the throttle set is due and runs
TimeoutFires ==
    /\ hook.timeoutId # 0
    /\ now >= hook.timeoutId
    /\ hook' = LET h == [hook EXCEPT !.lastTime = now, !.timeoutId = 0]
               IN  IF hook.mounted THEN handleScroll(h, page, now)
                   ELSE handleScrollUnmounted(h, page, now)
    /\ UNCHANGED <<host, page, particleVars>>

\* A scroll event that MagicalScrollEffects handles (the listeners of the
\* other components share no state with it and are left out); limit: the
\* particles followed.  The browser sends scroll events once per frame, so
\* not closer than gap ms.
MagicalScroll(y, gap, limit) ==
    /\ y <= page.docHeight
    /\ page.sinceScroll >= gap
    /\ Abs(y - page.scrollY) > sparkThreshold => Len(page.particles) < limit
    /\ page' = magicalScroll(page, y)
    /\ UNCHANGED <<host, hook, particleVars>>

\* the interval of MagicalScrollEffects is due: animateParticles runs
IntervalFires ==
    /\ page.intervalLeft = 0
    /\ page' = [page EXCEPT !.particles = animateParticles(@),
                            !.intervalLeft = sparkInterval]
    /\ UNCHANGED <<host, hook, particleVars>>

\* d ms pass, no longer than until the interval is due
Elapse(d) ==
    /\ d <= page.intervalLeft
    /\ page' = [page EXCEPT !.intervalLeft = @ - d,
                            !.sinceScroll = Min(sparkInterval, @ + d)]
    /\ UNCHANGED <<host, hook, particleVars>>

\* the user edits a field of the form; the fields are disabled while
\* isLoading
InputChange(field, value) ==
    /\ ~page.form.isLoading
    /\ page.form.formData[field] # value
    /\ page' = [page EXCEPT !.form = handleInputChange(@, field, value)]
    /\ UNCHANGED <<host, hook, particleVars>>

\* the user submits the form; the submit button is disabled while isLoading
Submit(limit) ==
    /\ ~page.form.isLoading
    /\ page.form.calls < limit
    /\ page' = [page EXCEPT !.form = handleSubmit(@)]
    /\ UNCHANGED <<host, hook, particleVars>>

\* the promise of emailjs.sendForm is fulfilled
SendResolves ==
    /\ page.form.pending
    /\ page' = [page EXCEPT !.form = sendResolved(@)]
    /\ UNCHANGED <<host, hook, particleVars>>

\* the promise of emailjs.sendForm is rejected
SendRejects ==
    /\ page.form.pending
    /\ page' = [page EXCEPT !.form = sendRejected(@)]
    /\ UNCHANGED <<host, hook, particleVars>>

\* the timeout the debounce set is due: the section detection runs
DebounceFires ==
    /\ hook.debounceId # 0
    /\ now >= hook.debounceId
    /\ hook' = [hook EXCEPT !.debounceId = 0,
                            !.late = IF hook.mounted THEN @ ELSE @ \cup {"detectActiveSection"}]
    /\ UNCHANGED <<host, page, particleVars>>

\* the cleanup of the listener effect when the component unmounts: the two
\* listeners are removed
HookCleanup ==
    /\ hook.mounted
    /\ hook' = [hook EXCEPT !.mounted = FALSE]
    /\ UNCHANGED <<host, page, particleVars>>

----------------------------------------------------------------------------
(* The component's life: every operation, small inputs *)

NormalDevice == [dpr2 |-> 2, cores |-> 8]
LowPowerDevice == [dpr2 |-> 2, cores |-> 0]
SmallViewport == [width |-> 450, height |-> 300]
LargeViewport == [width |-> 1920, height |-> 1080]

LifeArrays ==
    {<<Particle(Px(100), Px(100), 10, 0, 100, 1),
       Particle(Px(160), Px(100), -10, 5, 239, 1)>>}

Init ==
    \E vp \in {SmallViewport, LargeViewport}, dev \in {NormalDevice, LowPowerDevice} :
        Unmounted(vp, dev, FALSE)

MountLife == Mount(LifeArrays, MaxMounts)

AnimateLife == Animate(MaxFrames)

ResizeLife == \E vp \in {SmallViewport, LargeViewport} : WindowResize(vp)

MouseMoveLife == MouseMove(Px(130), Px(100))

ClockLife == ClockStep(mouseThrottle, MaxTime)

Next ==
    \/ MountLife
    \/ AnimateLife
    \/ Cleanup
    \/ ResizeLife
    \/ MouseMoveLife
    \/ MouseLeave
    \/ MotionChange
    \/ ClockLife

Spec == Init /\ [][Next]_vars

----------------------------------------------------------------------------
(* Claims checked under Spec *)

\* C8: in every tick in which the reduced-motion preference is true no
\* connection line is drawn, and every particle is still updated (its opacity
\* moved by one step) and drawn (draw() painted it as it now is).
C8_ReducedMotionSkipsLines ==
    (lastOp = "animate" /\ tick.reduced) =>
        /\ tick.lines = <<>>
        /\ Len(tick.drawn) = Len(store[tick.g])
        /\ \A i \in 1..Len(store[tick.g]) :
             /\ tick.drawn[i] = store[tick.g][i]
             /\ Abs(store[tick.g][i].opacity - tick.before[i].opacity) = opacityStep

\* a reduced-motion tick over particles that are close enough to be connected
C8_Witness ==
    /\ lastOp = "animate"
    /\ tick.reduced
    /\ naivePairs(store[tick.g]) # {}
    /\ tick.lines = <<>>

\* C9: the dimensions the particle count is computed from are the dimensions
\* of the canvas the particles are placed in.
C9_CountFromPlacementCanvas ==
    gen > 0 => hist.countDims = hist.placeDims

\* C10: the particle count is between 30 and 100.
C10_CountClamped ==
    gen > 0 => (lowPowerMin <= particleCount /\ particleCount <= normalMax)

\* C11: for the canvas area the count is computed from, the count of a
\* low-power device is at most the count of a device that is not.
C11_LowPowerNotMore ==
    gen > 0 =>
        particleCountOf(hist.countDims, TRUE) <= particleCountOf(hist.countDims, FALSE)

\* a step changed the velocity of a particle
VelocityChanged ==
    \E g \in 1..gen : \E i \in 1..Len(store[g]) :
        \/ store'[g][i].speedX # store[g][i].speedX
        \/ store'[g][i].speedY # store[g][i].speedY

\* C14: the pointer state starts idle; it becomes active only in an accepted
\* mousemove, and every accepted mousemove leaves it active; it becomes idle
\* only in a mouseleave, and every mouseleave leaves it idle; a step that
\* changes a particle's velocity is an accepted mousemove and leaves the
\* state active.
C14_PointerMachine ==
    /\ ~mouseRef.active
    /\ [][/\ (~mouseRef.active /\ mouseRef'.active) => lastOp' = "mousemove"
          /\ lastOp' = "mousemove" => mouseRef'.active
          /\ (mouseRef.active /\ ~mouseRef'.active) => lastOp' = "mouseleave"
          /\ lastOp' = "mouseleave" => ~mouseRef'.active
          /\ VelocityChanged => (lastOp' = "mousemove" /\ mouseRef'.active)]_vars

\* the pointer has left after a sample that pushed a particle: the state is
\* idle again and the particle keeps the velocity the sample gave it
C14_Witness ==
    /\ lastOp = "mouseleave"
    /\ ~mouseRef.active
    /\ hist.samples >= 1
    /\ store[gen][1].speedX > 10

\* C15: once the cleanup has run no frame request is left, so animate does
\* not run again: while the component is mounted the one pending request is
\* the one whose handle the effect holds in animationId, and a step that ran
\* animate ran it for the mounted run of the effect.
C15_NoFrameAfterCleanup ==
    /\ ~mounted => rafPending = {}
    /\ \A r \in rafPending : r.g = gen /\ r.id = animationId[gen]
    /\ lastOp = "animate" => (mounted /\ tick.g = gen)

\* the cleanup ran after frames had fired, after a resize and a sample
C15_Witness ==
    /\ ~mounted
    /\ gen > 0
    /\ animationIdRef >= 2
    /\ hist.samples >= 1
    /\ canvas # hist.placeDims
    /\ rafPending = {}

\* C16: no step adds a particle to or removes one from a particles array,
\* and particleCount changes only when the effect runs.
C16_ParticleSetFixed ==
    [][/\ \A g \in 1..gen : Len(store'[g]) = Len(store[g])
       /\ gen' = gen => particleCount' = particleCount]_vars

\* after a tick, an accepted sample, a mouseleave and a resize to a canvas
\* of another area, the particles and the count are the ones of the mount
C16_Witness ==
    /\ mounted
    /\ animationIdRef >= 2
    /\ hist.samples >= 1
    /\ ~mouseRef.active
    /\ canvas # hist.placeDims
    /\ Len(store[gen]) = 2
    /\ particleCount = particleCountOf(hist.countDims, isLowPowerDevice(device))
    /\ particleCount # particleCountOf(canvas, isLowPowerDevice(device))

----------------------------------------------------------------------------
(* The grid and the connection pass: GridCount particles anywhere on a     *)
(* canvas of 3 x 2 cells, next to and far from cell borders and canvas     *)
(* edges, drifting at constructor speeds.                                  *)

GridViewport == [width |-> 450, height |-> 300]

GridParticles ==
    {Particle(x, y, v[1], v[2], 100, 1) :
        x \in {15, Px(100), Px(150) + 5, Px(299) + 95, Px(449) + 95},
        y \in {5, Px(299) + 95},
        v \in {<<-10, 0>>, <<10, 5>>, <<0, -10>>}}

InitGrid == Unmounted(GridViewport, NormalDevice, FALSE)

MountGrid == Mount([1..GridCount -> GridParticles], 1)

AnimateGrid == Animate(MaxFrames)

NextGrid == MountGrid \/ AnimateGrid

SpecGrid == InitGrid /\ [][NextGrid]_vars

\* the references a sequence holds
Refs(seq) == {seq[n] : n \in 1..Len(seq)}

\* the last step ran a connection pass
ConnectionPassRan == lastOp = "animate" /\ ~tick.reduced

\* C3: with the grid freshly built from the arrangement, the grid-based pass
\* draws as many lines as the all-pairs reference loop.
C3_LinesEqualNaive ==
    (ConnectionPassRan /\ tick.rebuilt) =>
        Len(tick.lines) = Cardinality(naivePairs(store[tick.g]))

\* C4 as stated: at every connection pass the neighbourhood gathered for p
\* holds p and every q within cellSize of p on both axes.
C4_NeighbourhoodEveryTick ==
    ConnectionPassRan =>
        \A i, j \in 1..Len(store[tick.g]) :
            LET p == store[tick.g][i]
                q == store[tick.g][j]
            IN  (Abs(q.x - p.x) <= cellSize /\ Abs(q.y - p.y) <= cellSize)
                    => Ref(tick.g, j) \in Refs(tick.nearby[i])

\* C4 amended: the same at every connection pass of a tick that rebuilt the grid.
C4_NeighbourhoodFreshGrid ==
    (ConnectionPassRan /\ tick.rebuilt) =>
        \A i, j \in 1..Len(store[tick.g]) :
            LET p == store[tick.g][i]
                q == store[tick.g][j]
            IN  (Abs(q.x - p.x) <= cellSize /\ Abs(q.y - p.y) <= cellSize)
                    => Ref(tick.g, j) \in Refs(tick.nearby[i])

\* a fresh grid, two particles in different cells within cellSize of each
\* other, each in the other's neighbourhood
C4_Witness ==
    /\ ConnectionPassRan
    /\ tick.rebuilt
    /\ \E i, j \in 1..Len(store[tick.g]) :
         LET p == store[tick.g][i]
             q == store[tick.g][j]
         IN  /\ CellOf(p, cellSize) # CellOf(q, cellSize)
             /\ Abs(q.x - p.x) <= cellSize /\ Abs(q.y - p.y) <= cellSize
             /\ Ref(tick.g, j) \in Refs(tick.nearby[i])

\* C5 as stated, taken at the passes that read a freshly built grid (it
\* fails there already): no particle farther than 2 x cellSize from p is in
\* the neighbourhood gathered for p.
C5_FarExcluded ==
    (ConnectionPassRan /\ tick.rebuilt) =>
        \A i \in 1..Len(store[tick.g]) : \A o \in Refs(tick.nearby[i]) :
            distSq(store[tick.g][i], Deref(store, o)) <= (2 * cellSize) * (2 * cellSize)

\* C5 amended: on a tick that rebuilt the grid, every particle in the
\* neighbourhood gathered for p is less than 2 x cellSize from p on each axis.
C5_FarOnAnAxisExcluded ==
    (ConnectionPassRan /\ tick.rebuilt) =>
        \A i \in 1..Len(store[tick.g]) : \A o \in Refs(tick.nearby[i]) :
            /\ Abs(Deref(store, o).x - store[tick.g][i].x) < 2 * cellSize
            /\ Abs(Deref(store, o).y - store[tick.g][i].y) < 2 * cellSize

\* a fresh grid and a particle 2 x cellSize or more from p on an axis: it is
\* not in p's neighbourhood
C5_Witness ==
    /\ ConnectionPassRan
    /\ tick.rebuilt
    /\ \E i, j \in 1..Len(store[tick.g]) :
         /\ Abs(store[tick.g][j].x - store[tick.g][i].x) >= 2 * cellSize
         /\ Ref(tick.g, j) \notin Refs(tick.nearby[i])

----------------------------------------------------------------------------
(* Opacity: one particle, every opacity and direction the constructor can  *)
(* give, followed for more than a full period of the oscillator.           *)

OpacityArrays ==
    {<<Particle(Px(100), Px(100), 0, 0, o, d)>> : o \in 80..239, d \in {-1, 1}}

InitOpacity == Unmounted(SmallViewport, NormalDevice, FALSE)

MountOpacity == Mount(OpacityArrays, 1)

AnimateOpacity == Animate(OpacityFrames)

NextOpacity == MountOpacity \/ AnimateOpacity

SpecOpacity == InitOpacity /\ [][NextOpacity]_vars

\* C2: every particle's opacity is between 0 and 1 in every reachable state.
C2_OpacityInUnitRange ==
    \A g \in 1..gen : \A i \in 1..Len(store[g]) :
        0 <= store[g][i].opacity /\ store[g][i].opacity <= opacityOne

\* after more than half a period a particle has come down below 0.15 and
\* its direction has just flipped to growing
C2_Witness ==
    /\ gen = 1
    /\ store[1][1].opacity < opacityLow
    /\ store[1][1].opacityDirection = 1
    /\ tick.before[1].opacityDirection = -1
    /\ animationIdRef > (opacityHigh - opacityLow) \div opacityStep

----------------------------------------------------------------------------
(* The mousemove throttle: the clock moves forward and backward in small   *)
(* steps between mousemove events.                                         *)

MouseArrays == {<<Particle(Px(100), Px(100), 10, 0, 100, 1)>>}

InitMouse == Unmounted(SmallViewport, NormalDevice, FALSE)

MountMouse == Mount(MouseArrays, 1)

MouseMoveMouse == MouseMove(Px(130), Px(100))

ClockMouse == \E d \in {-16, 16, 31} : ClockStep(d, MaxTime)

NextMouse == MountMouse \/ MouseMoveMouse \/ MouseLeave \/ ClockMouse

SpecMouse == InitMouse /\ [][NextMouse]_vars

\* C7: the timestamps of two consecutive accepted samples differ by at least
\* 32 ms.
C7_SamplesThrottled ==
    hist.samples >= 2 => lastMouseUpdateRef - hist.prevSample >= mouseThrottle

\* two accepted samples exactly 32 ms apart
C7_Witness ==
    /\ hist.samples >= 2
    /\ lastOp = "mousemove"
    /\ lastMouseUpdateRef - hist.prevSample = mouseThrottle

----------------------------------------------------------------------------------------------------------------------------------------
(* Particle.update on a particle in any state of a running simulation:     *)
(* anywhere in the canvas (next to its edges), with the constructor's      *)
(* velocities and with velocities up to maxSpeed, on a canvas of 3 x 2     *)
(* cells that resizes shrink to less than one step and grow again.         *)

TinyViewport == [width |-> 1, height |-> 1]

UpdateVelocities ==
    {<<0, 0>>, <<-10, 5>>, <<14, -15>>, <<150, 0>>, <<-150, 0>>,
     <<0, 150>>, <<0, -150>>, <<90, 120>>, <<-106, -106>>}

UpdateParticles(vp) ==
    {Particle(x, y, v[1], v[2], 100, 1) :
        x \in {0, 5, Px(vp.width) - 150, Px(vp.width) - 10},
        y \in {0, Px(vp.height) - 10},
        v \in UpdateVelocities}

InitUpdate ==
    \E p \in UpdateParticles(SmallViewport) :
        Running(SmallViewport, NormalDevice, <<p>>, gridEvery)

AnimateUpdate == Animate(gridEvery + MaxFrames)

ResizeUpdate == \E vp \in {TinyViewport, SmallViewport} : WindowResize(vp)

NextUpdate == AnimateUpdate \/ ResizeUpdate

SpecUpdate == InitUpdate /\ [][NextUpdate]_vars

\* the particles animate has just updated
JustUpdated == IF lastOp = "animate" THEN 1..Len(store[tick.g]) ELSE {}

\* C1 as stated: after every Particle.update, 0 <= x < canvas.width and
\* 0 <= y < canvas.height.
C1_PositionHalfOpen ==
    \A i \in JustUpdated :
        /\ 0 <= store[tick.g][i].x /\ store[tick.g][i].x < Px(canvas.width)
        /\ 0 <= store[tick.g][i].y /\ store[tick.g][i].y < Px(canvas.height)

\* C1 amended: after every Particle.update, 0 <= x <= canvas.width and
\* 0 <= y <= canvas.height.
C1_PositionClosed ==
    \A i \in JustUpdated :
        /\ 0 <= store[tick.g][i].x /\ store[tick.g][i].x <= Px(canvas.width)
        /\ 0 <= store[tick.g][i].y /\ store[tick.g][i].y <= Px(canvas.height)

\* an update that wrapped: the particle was about to leave the canvas, or was
\* outside it after the canvas shrank
C1_Witness ==
    /\ lastOp = "animate"
    /\ \E i \in 1..Len(store[tick.g]) :
         LET b == tick.before[i]
         IN  /\ store[tick.g][i] = tick.drawn[i]
             /\ \/ b.x + b.speedX > Px(canvas.width)
                \/ b.x + b.speedX < 0
                \/ b.y + b.speedY > Px(canvas.height)
                \/ b.y + b.speedY < 0

----------------------------------------------------------------------------
(* The mouse force on a particle in any state of a running simulation: at  *)
(* rest, with the constructor's velocities and with velocities up to       *)
(* maxSpeed; the pointer on the particle, 0.1 px from it and at the        *)
(* distance of the strongest pull.                                         *)

ForceParticles ==
    {Particle(x, y, v[1], v[2], 100, 1) :
        x \in {10, Px(100)}, y \in {0, Px(100)}, v \in UpdateVelocities}

InitForce ==
    \E p \in ForceParticles : Running(SmallViewport, NormalDevice, <<p>>, gridEvery)

AnimateForce == Animate(gridEvery + MaxFrames)

MouseMoveForce ==
    \E m \in {<<0, 0>>, <<10, 0>>, <<Px(50), 0>>, <<Px(40), Px(30)>>} : MouseMove(m[1], m[2])

ClockForce == ClockStep(mouseThrottle, MaxTime)

NextForce == AnimateForce \/ MouseMoveForce \/ ClockForce

SpecForce == InitForce /\ [][NextForce]_vars

\* C6: every particle's speed is at most maxSpeed.
C6_SpeedLimited ==
    \A g \in 1..gen : \A i \in 1..Len(store[g]) :
        speedSq(store[g][i]) <= maxSpeed * maxSpeed

\* an accepted mousemove pushed a particle past maxSpeed and limited it
C6_Witness ==
    /\ lastOp = "mousemove"
    /\ hist.clamped # {}
    /\ \A i \in hist.clamped :
         speedSq(store[gen][i]) > (maxSpeed - 2) * (maxSpeed - 2)

\* C12 as stated, tick by tick: while the pointer rests within
\* interactionRadius of a particle, a tick makes the particle faster until
\* its speed is maxSpeed, and leaves it at maxSpeed from then on.
C12_StationaryPointerAccelerates ==
    (lastOp = "animate" /\ mouseRef.active) =>
        \A i \in 1..Len(store[tick.g]) :
            inRadius(tick.before[i], mouseRef.x, mouseRef.y) =>
                IF speedSq(tick.before[i]) < maxSpeed * maxSpeed
                THEN speedSq(store[tick.g][i]) > speedSq(tick.before[i])
                ELSE speedSq(store[tick.g][i]) = maxSpeed * maxSpeed

\* C12 amended: a tick leaves every particle's velocity as it was, wherever
\* the pointer rests.
C12_TicksKeepVelocity ==
    lastOp = "animate" =>
        \A i \in 1..Len(store[tick.g]) :
            /\ store[tick.g][i].speedX = tick.before[i].speedX
            /\ store[tick.g][i].speedY = tick.before[i].speedY

\* a tick after an accepted mousemove, the pointer resting within
\* interactionRadius of a moving particle that is slower than maxSpeed
C12_Witness ==
    /\ lastOp = "animate"
    /\ mouseRef.active
    /\ hist.samples >= 1
    /\ \E i \in 1..Len(store[tick.g]) :
         /\ inRadius(tick.before[i], mouseRef.x, mouseRef.y)
         /\ inRadius(store[tick.g][i], mouseRef.x, mouseRef.y)
         /\ 0 < speedSq(tick.before[i])
         /\ overSpeed(tick.before[i]) = FALSE
         /\ speedSq(store[tick.g][i]) = speedSq(tick.before[i])

----------------------------------------------------------------------------
(* The pull of one accepted mousemove on two particles at different        *)
(* distances from the pointer: on it, near it, at half the radius, near    *)
(* the rim of the radius and outside it.                                   *)

PullParticles ==
    {Particle(Px(200) - d[1], Px(150) - d[2], v[1], v[2], 100, 1) :
        d \in {<<0, 0>>, <<Px(10), 0>>, <<Px(30), 0>>, <<Px(30), Px(40)>>,
               <<Px(60), 0>>, <<0, Px(80)>>, <<Px(99), 0>>, <<Px(100), 0>>},
        v \in {<<0, 0>>, <<10, -5>>}}

InitPull ==
    \E p, q \in PullParticles :
        Running(SmallViewport, NormalDevice, <<p, q>>, gridEvery)

AnimatePull == Animate(gridEvery + 1)

MouseMovePull == \E mx \in {Px(200), Px(215)} : MouseMove(mx, Px(150))

ClockPull == ClockStep(mouseThrottle, MaxTime)

NextPull == AnimatePull \/ MouseMovePull \/ ClockPull

SpecPull == InitPull /\ [][NextPull]_vars

\* particle i is within interactionRadius of the pointer of the sample this
\* step accepted, and the sample did not limit its speed
Pulled(i) ==
    /\ inRadius(store[gen][i], mouseRef'.x, mouseRef'.y)
    /\ i \notin hist'.clamped

\* the length of the velocity change of particle i in this step, rounded up
PullLength(i) ==
    Sqrt(Sq(store'[gen][i].speedX - store[gen][i].speedX)
         + Sq(store'[gen][i].speedY - store[gen][i].speedY))

\* the velocity change of particle i in this step does not point away from
\* the pointer on either axis
PullToward(i) ==
    /\ (store'[gen][i].speedX - store[gen][i].speedX) * (mouseRef'.x - store[gen][i].x) >= 0
    /\ (store'[gen][i].speedY - store[gen][i].speedY) * (mouseRef'.y - store[gen][i].y) >= 0

\* particle i is at most as far from the pointer as particle j
Nearer(i, j) ==
    Sq(mouseRef'.x - store[gen][i].x) + Sq(mouseRef'.y - store[gen][i].y)
        <= Sq(mouseRef'.x - store[gen][j].x) + Sq(mouseRef'.y - store[gen][j].y)

\* particle i is at least (at most) half the radius from the pointer
OuterHalf(i) ==
    4 * (Sq(mouseRef'.x - store[gen][i].x) + Sq(mouseRef'.y - store[gen][i].y))
        >= interactionRadius * interactionRadius

InnerHalf(i) ==
    4 * (Sq(mouseRef'.x - store[gen][i].x) + Sq(mouseRef'.y - store[gen][i].y))
        <= interactionRadius * interactionRadius

\* C13 as stated: at an accepted sample, of two particles inside the radius
\* the nearer one receives an impulse at least as long as the farther one
\* (lengths compared up to the rounding of the fixed point, 0.03), and each
\* impulse points toward the pointer.
C13_CloserStronger ==
    [][lastOp' = "mousemove" =>
          \A i, j \in 1..Len(store[gen]) :
              (Pulled(i) /\ Pulled(j)) =>
                  /\ PullToward(i)
                  /\ Nearer(i, j) => PullLength(i) + 3 >= PullLength(j)]_vars

\* C13 amended: each impulse points toward the pointer; of two particles at
\* least half the radius from the pointer the nearer one receives the longer
\* impulse, of two particles at most half the radius from it the farther one.
C13_PullPeaksAtHalfRadius ==
    [][lastOp' = "mousemove" =>
          \A i, j \in 1..Len(store[gen]) :
              (Pulled(i) /\ Pulled(j)) =>
                  /\ PullToward(i)
                  /\ (Nearer(i, j) /\ OuterHalf(i)) => PullLength(i) + 3 >= PullLength(j)
                  /\ (Nearer(i, j) /\ InnerHalf(j)) => PullLength(i) <= PullLength(j) + 3]_vars

\* an accepted sample with both particles inside the radius and moving, one
\* nearer than half the radius and one farther, neither limited
C13_Witness ==
    /\ lastOp = "mousemove"
    /\ hist.clamped = {}
    /\ Len(store[gen]) = 2
    /\ inRadius(store[gen][1], mouseRef.x, mouseRef.y)
    /\ inRadius(store[gen][2], mouseRef.x, mouseRef.y)
    /\ 4 * distSq(store[gen][1], mouseRef) < interactionRadius * interactionRadius
    /\ 4 * distSq(store[gen][2], mouseRef) > interactionRadius * interactionRadius
    /\ speedSq(store[gen][1]) > 0
    /\ speedSq(store[gen][2]) > 0

----------------------------------------------------------------------------
(* Two particles that start from the same snapshot, one for each of two    *)
(* simulations on canvases of the same size, with no pointer input: ticks  *)
(* and resizes only.                                                       *)

TwinParticles ==
    UpdateParticles(SmallViewport)
        \cup {Particle(Px(100), Px(100), v[1], v[2], o[1], o[2]) :
                 v \in {<<14, -15>>, <<-150, 0>>},
                 o \in {<<opacityHigh - 1, 1>>, <<opacityLow + 1, -1>>, <<opacityHigh + 1, -1>>}}

InitTwin ==
    \E p \in TwinParticles : Running(SmallViewport, NormalDevice, <<p, p>>, gridEvery)

AnimateTwin == Animate(gridEvery + MaxFrames)

ResizeTwin == \E vp \in {TinyViewport, SmallViewport} : WindowResize(vp)

NextTwin == AnimateTwin \/ ResizeTwin

SpecTwin == InitTwin /\ [][NextTwin]_vars

----------------------------------------------------------------------------
(* The mount with and without a canvas and a 2D context.                   *)

Hosts ==
    {[canvasRef |-> c, context |-> x, outcome |-> "none"] : c \in BOOLEAN, x \in BOOLEAN}

InitHost ==
    \E vp \in {SmallViewport, LargeViewport}, dev \in {NormalDevice, LowPowerDevice},
       h \in Hosts :
        UnmountedOn(vp, dev, FALSE, h, 0)

MountHost == Mount(LifeArrays, 1)

AnimateHost == Animate(MaxFrames)

ResizeHost == \E vp \in {SmallViewport, LargeViewport} : WindowResize(vp)

NextHost ==
    MountHost \/ MountFails \/ AnimateHost \/ Cleanup \/ ResizeHost \/ MotionChange

SpecHost == InitHost /\ [][NextHost]_vars

\* C20: when the canvas or its context is not to be had, the run of the
\* effect ends with an error raised to the host.
C20_FailureSurfaced ==
    ((~host.canvasRef \/ ~host.context) /\ host.outcome # "none") =>
        host.outcome = "TypeError"

----------------------------------------------------------------------------
(* The scroll listeners on a page with and without scroll range: scroll    *)
(* events a few ms apart, up and down, and layout changes.                 *)

InitScroll ==
    \E dh \in {0, 100} : UnmountedOn(SmallViewport, NormalDevice, FALSE, HealthyHost, dh)

ScrollScroll == \E y \in {0, 40, 100} : ScrollEvent(y)

LayoutScroll == \E dh \in {0, 100} : LayoutChange(dh)

ClockScroll == \E d \in {5, 16} : ClockStep(d, MaxTime)

NextScroll == ScrollScroll \/ LayoutScroll \/ TimeoutFires \/ ClockScroll

SpecScroll == InitScroll /\ [][NextScroll]_vars

\* C18: with docHeight = 0 every scroll-progress computation yields 0: the
\* hook's and App's as computed by their last run, the progress bar's width
\* as rendered after a scroll event.
C18_ProgressZeroWithoutRange ==
    /\ hook.seen = 0 => hook.scrollProgress = Finite(0)
    /\ page.seen = 0 => page.scrollProgress = Finite(0)
    /\ (page.seen # -1 /\ page.docHeight = 0) => progressWidth(page) = Finite(0)

\* C19: two consecutive executions of the hook's handleScroll are at least
\* 16 ms apart.
C19_HandleScrollThrottled ==
    hook.runs >= 2 => hook.lastRun - hook.prevRun >= scrollThrottle

----------------------------------------------------------------------------
(* The rebuild cadence over more than two periods of the frame counter,    *)
(* with the effect cleaned up and run again on the same component (the     *)
(* refs persist): two particles next to and across a cell border and a     *)
(* canvas edge.                                                            *)

CadenceParticles ==
    {Particle(x, 5, v[1], v[2], 100, 1) :
        x \in {Px(100), Px(150) + 45, Px(449) + 95},
        v \in {<<-10, 0>>, <<10, 5>>}}

InitCadence == Unmounted(GridViewport, NormalDevice, FALSE)

MountCadence == Mount([1..2 -> CadenceParticles], 2)

AnimateCadence == Animate(CadenceFrames)

NextCadence == MountCadence \/ AnimateCadence \/ Cleanup

SpecCadence == InitCadence /\ [][NextCadence]_vars

\* the cells of the grid are the buckets of the particles of run g as they are now
GridIsFresh(cells, st, g) == cells = buildGrid(st[g], g, cellSize)

\* C21: the first call of animate of a component builds the grid from the
\* particles as that call has updated them, before its connection pass; at
\* every connection pass the grid has been built (it is not the empty object
\* of the ref's initial value).
C21_FirstTickBuildsGrid ==
    /\ (lastOp = "animate" /\ animationIdRef = 1) =>
           (tick.rebuilt /\ GridIsFresh(gridRef, store, tick.g))
    /\ lastOp = "animate" => gridRef # <<>>

\* the first tick of a component: the grid holds both particles and the
\* connection pass gathered them from it
C21_Witness ==
    /\ lastOp = "animate"
    /\ animationIdRef = 1
    /\ ~tick.reduced
    /\ GridIsFresh(gridRef, store, 1)
    /\ \E i \in 1..2 : Len(tick.nearby[i]) = 2

\* C22: the frame counter starts at 0 and changes only in a call of animate,
\* by 1; a call that finds a multiple of 3 in the counter leaves in the grid
\* the buckets of the particles as it has just updated them, every other
\* call and every other step leaves the grid as it was: so the grid a
\* connection pass reads was built in this tick or one of the two before.
C22_RebuildEveryThirdTick ==
    /\ animationIdRef = 0
    /\ [][IF animationIdRef' # animationIdRef
          THEN /\ lastOp' = "animate"
               /\ animationIdRef' = animationIdRef + 1
               /\ tick'.rebuilt = (animationIdRef % gridEvery = 0)
               /\ IF animationIdRef % gridEvery = 0
                  THEN GridIsFresh(gridRef', store', tick'.g)
                  ELSE gridRef' = gridRef
          ELSE gridRef' = gridRef]_vars

\* the tick that found 5 in the counter: the grid is the one the tick that
\* found 3 built, two ticks old, and a particle has changed cell since
C22_Witness ==
    /\ lastOp = "animate"
    /\ gen = 1
    /\ animationIdRef = 2 * gridEvery
    /\ ~tick.rebuilt
    /\ ~GridIsFresh(gridRef, store, 1)
    /\ \E i \in 1..2 : Len(tick.nearby[i]) = 2

\* C26: at every connection pass every particle the grid holds is one of
\* the particles array of the run of the effect that makes the pass.
C26_GridHoldsCurrentParticles ==
    ConnectionPassRan =>
        \A k \in DOMAIN gridRef : \A o \in Refs(gridRef[k]) : o.g = tick.g

----------------------------------------------------------------------------
(* The opacity oscillator without end: one particle that starts at the    *)
(* ends of the constructor's opacity range, on both parities of the fixed  *)
(* point, in either direction (the ticks take it through every opacity in  *)
(* between); the host keeps delivering frames (the page stays visible),    *)
(* the reduced-motion preference may change at any time.                   *)

BreatheArrays ==
    {<<Particle(Px(100), Px(100), 0, 0, o, d)>> : o \in {80, 81, 238, 239}, d \in {-1, 1}}

InitBreathe ==
    \E ps \in BreatheArrays : Running(SmallViewport, NormalDevice, ps, 1)

NextBreathe == AnimateForever \/ MotionChange

\* A requested frame fires: the host calls animate, which moves the counter.
\* Of the steps of NextBreathe these are the steps of AnimateForever, and it
\* is enabled exactly when AnimateForever is: while a request is pending.
FrameFires == rafPending # {} /\ animationIdRef' = (animationIdRef + 1) % gridEvery

\* requestAnimationFrame: while the page is visible a requested frame is
\* delivered
SpecBreathe == InitBreathe /\ [][NextBreathe]_vars /\ WF_animationIdRef(FrameFires)

\* C23: a particle whose opacity is growing is eventually, above 0.6,
\* shrinking, and a particle whose opacity is shrinking is eventually, below
\* 0.15, growing: the direction is reversed again and again.
C23_OpacityKeepsFlipping ==
    /\ (store[1][1].opacityDirection = 1) ~>
           (store[1][1].opacityDirection = -1 /\ store[1][1].opacity > opacityHigh)
    /\ (store[1][1].opacityDirection = -1) ~>
           (store[1][1].opacityDirection = 1 /\ store[1][1].opacity < opacityLow)

\* a tick has just reversed a growing particle above 0.6, under reduced motion
C23_Witness ==
    /\ lastOp = "animate"
    /\ tick.reduced
    /\ tick.before[1].opacityDirection = 1
    /\ store[1][1].opacityDirection = -1
    /\ store[1][1].opacity > opacityHigh

----------------------------------------------------------------------------
(* The connection pass on two particles around the threshold: at the same  *)
(* point, just inside 120 px, at exactly 120 px (along an axis and along   *)
(* the 72-96-120 triangle) and beyond it, in one cell and across cell      *)
(* borders, at rest and drifting together or apart.                        *)

ConnectParticles ==
    {Particle(Px(100) + d[1], Px(100) + d[2], v[1], v[2], 100, 1) :
        d \in {<<0, 0>>, <<Px(120) - 1, 0>>, <<Px(120), 0>>, <<Px(72), Px(96)>>,
               <<Px(72) - 1, Px(96)>>, <<0, Px(120)>>, <<Px(200), 0>>, <<Px(60), Px(60)>>},
        v \in {<<0, 0>>, <<10, 5>>}}

InitConnect ==
    \E p, q \in ConnectParticles : Running(GridViewport, NormalDevice, <<p, q>>, gridEvery)

AnimateConnect == Animate(gridEvery + MaxFrames)

NextConnect == AnimateConnect \/ MotionChange

SpecConnect == InitConnect /\ [][NextConnect]_vars

\* the lines the last connection pass stroked, as a set of pairs of references
LinesDrawn == {tick.lines[n] : n \in 1..Len(tick.lines)}

\* C24: on a tick that rebuilt the grid the connection pass strokes a line
\* from p to q exactly when p and q are two particles of the array less than
\* 120 px apart; it strokes no other line.
C24_LineIffWithinThreshold ==
    (ConnectionPassRan /\ tick.rebuilt) =>
        /\ \A i, j \in 1..Len(store[tick.g]) :
             (<<Ref(tick.g, i), Ref(tick.g, j)>> \in LinesDrawn)
                 <=> (i # j /\ distSq(store[tick.g][i], store[tick.g][j]) < maxDist * maxDist)
        /\ \A l \in LinesDrawn : l[1].g = tick.g /\ l[2].g = tick.g

\* a rebuilt tick with the two particles in different cells, 119.99 px
\* apart: the line is stroked from either end, none from a particle to itself
C24_Witness ==
    /\ ConnectionPassRan
    /\ tick.rebuilt
    /\ CellOf(store[1][1], cellSize) # CellOf(store[1][2], cellSize)
    /\ distSq(store[1][1], store[1][2]) = (maxDist - 1) * (maxDist - 1)
    /\ LinesDrawn = {<<Ref(1, 1), Ref(1, 2)>>, <<Ref(1, 2), Ref(1, 1)>>}

----------------------------------------------------------------------------
(* The ticks between two rebuilds: two particles next to the canvas edges  *)
(* and to a cell border, moving at up to maxSpeed, from a tick that        *)
(* rebuilds the grid through the two stale ticks after it.                 *)

StaleParticles ==
    {Particle(x, y, v[1], v[2], 100, 1) :
        x \in {Px(2), Px(149), Px(448)},
        y \in {Px(50), Px(100)},
        v \in {<<-150, 0>>, <<150, 0>>, <<-10, 0>>}}

InitStale ==
    \E p, q \in StaleParticles : Running(GridViewport, NormalDevice, <<p, q>>, gridEvery)

AnimateStale == Animate(gridEvery + MaxFrames)

NextStale == AnimateStale \/ MotionChange

SpecStale == InitStale /\ [][NextStale]_vars

\* C25: at the connection pass of a tick that did not rebuild the grid,
\* every two particles no faster than maxSpeed that are now at different
\* points less than 120 px apart are connected by a line, stroked from one
\* of them or the other.
C25_StaleGridKeepsConnections ==
    (ConnectionPassRan /\ ~tick.rebuilt) =>
        \A i, j \in 1..Len(store[tick.g]) :
            (/\ i # j
             /\ distSq(store[tick.g][i], store[tick.g][j]) > 0
             /\ ~overSpeed(store[tick.g][i])
             /\ ~overSpeed(store[tick.g][j])
             /\ distSq(store[tick.g][i], store[tick.g][j]) < maxDist * maxDist)
                => \/ <<Ref(tick.g, i), Ref(tick.g, j)>> \in LinesDrawn
                   \/ <<Ref(tick.g, j), Ref(tick.g, i)>> \in LinesDrawn

----------------------------------------------------------------------------
(* Mousemove events at two pointer positions a few ms apart, with          *)
(* mouseleave in between, a dropped event recorded as such.                *)

InitThrottle ==
    Running(SmallViewport, NormalDevice, <<Particle(Px(100), Px(100), 10, 0, 100, 1)>>, gridEvery)

MouseMoveThrottle ==
    \E m \in {<<Px(130), Px(100)>>, <<Px(60), Px(130)>>} : MouseMoveNoting(m[1], m[2], "dropped")

ClockThrottle == \E d \in {1, 16, 31} : ClockStep(d, MaxTime)

NextThrottle == MouseMoveThrottle \/ MouseLeave \/ ClockThrottle

SpecThrottle == InitThrottle /\ [][NextThrottle]_vars

\* C27: a mousemove event less than 32 ms after the last accepted sample
\* leaves the pointer position, the active flag, the time of the last
\* sample and every particle as they were.
C27_EarlyMoveChangesNothing ==
    [][(lastOp' \in {"mousemove", "dropped"} /\ now - lastMouseUpdateRef < mouseThrottle) =>
          /\ mouseRef' = mouseRef
          /\ lastMouseUpdateRef' = lastMouseUpdateRef
          /\ store' = store]_vars

\* an event 31 ms after a sample that pushed the particle, after the pointer
\* had left: dropped, the state still idle, the particle as the sample left it
C27_Witness ==
    /\ lastOp = "dropped"
    /\ hist.samples >= 1
    /\ now - lastMouseUpdateRef = mouseThrottle - 1
    /\ ~mouseRef.active
    /\ store[1][1].speedX # 10

----------------------------------------------------------------------------
(* The scroll hook until after its component has unmounted: scroll events  *)
(* a few ms apart, the two timeouts, the cleanup at any moment.            *)

InitUnmount == UnmountedOn(SmallViewport, NormalDevice, FALSE, HealthyHost, 100)

ScrollUnmount == \E y \in {0, 40} : ScrollEvent(y)

\* 8 ms steps while the throttle's timeout can be pending, then the debounce delay
ClockUnmount ==
    ClockStep(scrollThrottle \div 2, 2 * scrollThrottle) \/ ClockStep(debounceDelay, UnmountTime)

NextUnmount ==
    ScrollUnmount \/ TimeoutFires \/ DebounceFires \/ HookCleanup \/ ClockUnmount

SpecUnmount == InitUnmount /\ [][NextUnmount]_vars

\* C28: no callback of the hook (the throttled handleScroll, the debounced
\* section detection) runs after the cleanup of the listener effect.
C28_NoCallbackAfterCleanup ==
    hook.late = {}

----------------------------------------------------------------------------
(* The scroll particles of MagicalScrollEffects: scroll events half an     *)
(* interval apart or more (a 120 Hz display sends them about 8 ms apart),  *)
(* by a few px and by many, against the 16 ms interval that ages the       *)
(* particles.  Time passes and a due interval fires.                       *)

InitSparks == UnmountedOn(SmallViewport, NormalDevice, FALSE, HealthyHost, 100)

ScrollSparks == \E y \in {0, 4, 40} : MagicalScroll(y, sparkInterval \div 2, 2)

ElapseSparks == Elapse(sparkInterval \div 2)

NextSparks == ScrollSparks \/ IntervalFires \/ ElapseSparks

SpecSparks ==
    InitSparks /\ [][NextSparks]_vars /\ WF_vars(IntervalFires) /\ WF_vars(ElapseSparks)

\* the particles list holds the particle with id i
HasParticle(i) == \E n \in 1..Len(page.particles) : page.particles[n].id = i

\* C29: every scroll particle that is in the list is eventually not in it.
C29_ParticlesEventuallyRemoved ==
    \A i \in 0..(sparkKeep + 1) : HasParticle(i) ~> ~HasParticle(i)

----------------------------------------------------------------------------
(* The contact form: the user edits the four fields (empty, blank, an      *)
(* address without @, valid values) and submits; a send that was started   *)
(* is fulfilled or rejected.                                                *)

InitForm == UnmountedOn(SmallViewport, NormalDevice, FALSE, HealthyHost, 0)

InputForm ==
    \/ \E v \in {"", " ", "Ann"} : InputChange("name", v)
    \/ \E v \in {"", "ann", "ann@x.org"} : InputChange("email", v)
    \/ \E v \in {"", "Hi"} : InputChange("subject", v)
    \/ \E v \in {"", "Hello"} : InputChange("message", v)

SubmitForm == Submit(MaxSends)

\* the promise settles
SendSettles == SendResolves \/ SendRejects

NextForm == InputForm \/ SubmitForm \/ SendResolves \/ SendRejects

\* emailjs.sendForm settles its promise: the request completes or fails
SpecForm == InitForm /\ [][NextForm]_vars /\ WF_vars(SendSettles)

\* the submission has ended: not loading, status success or error
SubmissionEnded ==
    /\ ~page.form.isLoading
    /\ ~page.form.pending
    /\ page.form.status.type \in {"success", "error"}

\* C30: a submission that passes validation calls sendForm and leads to
\* isLoading = false with a status of type success or error, at the moment
\* the promise settles, fulfilled or rejected; a submission that fails
\* validation calls no sendForm and leaves isLoading false, with an error
\* status.
C30_SubmissionEnds ==
    /\ [][/\ page'.form.event = "sending" =>
               (page'.form.calls = page.form.calls + 1 /\ page'.form.isLoading)
          /\ (page.form.pending /\ ~page'.form.pending) =>
               (page'.form.event \in {"resolved", "rejected"}
                /\ ~page'.form.isLoading
                /\ page'.form.status.type =
                     (IF page'.form.event = "resolved" THEN "success" ELSE "error"))
          /\ page'.form.event = "invalid" =>
               (/\ page'.form.calls = page.form.calls
                /\ ~page'.form.pending
                /\ ~page'.form.isLoading
                /\ page'.form.status.type = "error")]_vars
    /\ page.form.pending ~> SubmissionEnded

\* a second send, after one the service fulfilled, has just been rejected:
\* not loading, status error, the data still in the form
C30_Witness ==
    /\ page.form.event = "rejected"
    /\ page.form.calls = 2
    /\ ~page.form.isLoading
    /\ page.form.status.type = "error"
    /\ validateForm(page.form.formData) = NoStatus

====
